---- MODULE Spec2Model ----
(***************************************************************************)
(* Model of src/module/webtoon_analyzer.py: the WebtoonAnalyzer pipeline   *)
(* (info request, first list request, one concurrent request per page,    *)
(* flatten, stable sort by `no`, first-lock classification).              *)
(*                                                                         *)
(* EpisodeInfo objects live in `heap` (index = object identity, in the     *)
(* order the objects are constructed); the lists of the program hold       *)
(* object identities, as Python lists hold references.                     *)
(***************************************************************************)
EXTENDS Integers, Sequences, FiniteSets, TLC

\* ---- bounds of the remote title that is analysed ----
MaxPages == 2
MaxEpisodes == 3
MaxNo == 2

\* ---- program constants ----
HttpOk == 200
AdultTag == "RATE_18"

Statuses == {200, 500}
AgeTypes == {"RATE_18", "RATE_ALL"}

\* Optional[int]: None is the empty sequence, a set value n is <<n>>.
None == <<>>
Some(n) == <<n>>

VARIABLES
    remote,                 \* what the platform serves for the title
    pc,                     \* position of WebtoonAnalyzer.create
    metadata,               \* WebtoonMetadata returned by __fetch_webtoon_metadata
    requests,               \* log of the requests issued, in order
    tasks,                  \* state of each page task handed to asyncio.gather
    responses,              \* gather's result slots, by task position
    outOfOrder,             \* a page fetch completed while an earlier page's was in flight
    gatherError,            \* first exception a page task raised
    error,                  \* exception that left create
    heap,                   \* EpisodeInfo objects, by identity
    total_count,            \* self.__total_count
    downloadable_count,     \* self.__downloadable_count
    page_size,              \* self.__page_size
    total_pages,            \* self.__total_pages
    is_adult,               \* self.__is_adult
    downloadable_episodes,  \* self.__downloadable_episodes
    full_episodes,          \* self.__full_episodes
    clsIn,                  \* classifier harness: the list handed to the classifier
    clsOut,                 \* classifier harness: its result
    clsPrev,                \* classifier harness: its result before the last flip
    clsPc,                  \* classifier harness: position
    driver,                 \* what the caller of WebtoonAnalyzer did or got
    collEpisodes,           \* `episodes` handed to the collector
    collMode,               \* "batch": get_episodes_with_images_batch, "all": get_episodes_with_images
    batch_size,             \* batch_size handed to the collector
    detail,                 \* what the platform answers to the detail request of each `no`
    collPc,                 \* position of the collector call
    collI,                  \* loop variable i of the batch loop
    batchTasks,             \* the tasks of the current gather, by position
    episodes_with_images,   \* result list of the collector
    detailRequests,         \* instances whose detail page was requested, in order
    answered,               \* instances whose detail request was answered, in order
    pauses,                 \* asyncio.sleep(1) calls started
    collError               \* exception that left the collector

vars == <<remote, pc, metadata, requests, tasks, responses, outOfOrder, gatherError,
          error, heap, total_count, downloadable_count, page_size, total_pages,
          is_adult, downloadable_episodes, full_episodes, clsIn, clsOut, clsPrev, clsPc,
          driver, collEpisodes, collMode, batch_size, detail, collPc, collI, batchTasks,
          episodes_with_images, detailRequests, answered, pauses, collError>>

analyzerVars == <<remote, pc, metadata, requests, tasks, responses, outOfOrder,
                  gatherError, error, total_count, downloadable_count, page_size,
                  total_pages, is_adult, downloadable_episodes, full_episodes, driver>>

clsVars == <<clsIn, clsOut, clsPrev, clsPc>>

collVars == <<collEpisodes, collMode, batch_size, detail, collPc, collI, batchTasks,
              episodes_with_images, detailRequests, answered, pauses, collError>>

\* ---- helpers on sequences ----
RECURSIVE SumSeq(_)
SumSeq(s) == IF s = <<>> THEN 0 ELSE Head(s) + SumSeq(Tail(s))

RECURSIVE Flatten(_)
Flatten(ss) == IF ss = <<>> THEN <<>> ELSE Head(ss) \o Flatten(Tail(ss))

Range(s) == {s[i] : i \in DOMAIN s}

\* ---- the remote title ----
\* One entry of a list response's articleList. The subtitle is opaque to the
\* program; every entry the platform serves carries its own.
Article(n, l, p, i) == [no |-> n, subtitle |-> <<p, i>>, thumbnailLock |-> l]

\* Pages cut out of a flat run of entries: page p holds lens[p] of them.
PagesOf(lens, nos, locks) ==
    [p \in DOMAIN lens |->
        [i \in 1..lens[p] |->
            Article(nos[SumSeq(SubSeq(lens, 1, p - 1)) + i],
                    locks[SumSeq(SubSeq(lens, 1, p - 1)) + i], p, i)]]

\* The scenario of the specification: 3 pages of 20/20/5 episodes, numbered
\* 1..45, episode 30 and every higher number locked; served in ascending or in
\* descending order of `no`.
ScenarioLens == <<20, 20, 5>>
ScenarioPages(desc) ==
    PagesOf(ScenarioLens,
            [j \in 1..45 |-> IF desc THEN 46 - j ELSE j],
            [j \in 1..45 |-> (IF desc THEN 46 - j ELSE j) >= 30])

IsScenario(pages) ==
    /\ Len(pages) = Len(ScenarioLens)
    /\ pages \in {ScenarioPages(TRUE), ScenarioPages(FALSE)}

RemoteNos(pages) == {a.no : a \in Range(Flatten(pages))}

\* totalCount as the platform reports it: the number of episodes of the title
\* (fewer than the entries served when pages overlap)
RemoteTotalCount(pages) == Cardinality(RemoteNos(pages))

RECURSIVE MaxLen(_)
MaxLen(ss) ==
    IF ss = <<>> THEN 0
    ELSE LET m == MaxLen(Tail(ss))
         IN IF Len(Head(ss)) > m THEN Len(Head(ss)) ELSE m

\* pageInfo.pageSize as the platform reports it.
RemotePageSize(pages) == LET m == MaxLen(pages) IN IF m = 0 THEN 1 ELSE m


\* ---- the program's data ----
EpisodeInfo(n, s, l) == [no |-> n, subtitle |-> s, thumbnail_lock |-> l, img_urls |-> <<>>]

WebtoonMetadata(adult, tc, ps, tp) ==
    [is_adult |-> adult, total_count |-> tc, page_size |-> ps, total_pages |-> tp]

NoMetadata == WebtoonMetadata(FALSE, None, None, None)

ExceptionNoStatus(src, page, status) ==
    [kind |-> "Exception", src |-> src, page |-> page, status |-> 0]

\* raise Exception(f"... {response.status}")
Exception(src, page, status) == [kind |-> "Exception", src |-> src, page |-> page, status |-> status]
TypeError == [kind |-> "TypeError", src |-> "range", page |-> 0, status |-> 0]
NoError == [kind |-> "none", src |-> "none", page |-> 0, status |-> 0]

InfoRequest == [kind |-> "info", by |-> "resolver", page |-> 0]
ListRequest(by, page) == [kind |-> "list", by |-> by, page |-> page]

OrZeroDropped(x) == 0

\* `x or 0` on an Optional[int]
OrZero(x) == IF x = None THEN 0 ELSE IF x[1] = 0 THEN 0 ELSE x[1]

IsAdultNever(ageType) == FALSE

\* comic_info.age.type == "RATE_18"
IsAdult(ageType) == ageType = AdultTag

PageRangeSkipFirst(tp) == [i \in 1..(tp - 1) |-> i + 1]

PageRangeShort(tp) == [i \in 1..(tp - 1) |-> i]

\* range(1, metadata.total_pages + 1), as the list of page numbers
PageRange(tp) == [i \in 1..tp |-> i]

RECURSIVE DedupByNo(_, _)
DedupByNo(es, seen) ==
    IF es = <<>> THEN <<>>
    ELSE IF Head(es).no \in seen THEN DedupByNo(Tail(es), seen)
         ELSE <<Head(es)>> \o DedupByNo(Tail(es), seen \cup {Head(es).no})

CollectEpisodesDedup(resps) ==
    DedupByNo([i \in 1..Len(Flatten(resps)) |->
                  [no |-> Flatten(resps)[i].no, subtitle |-> Flatten(resps)[i].subtitle,
                   thumbnail_lock |-> Flatten(resps)[i].thumbnailLock, img_urls |-> <<>>]],
              {})

\* EpisodeInfo(no=..., subtitle=..., thumbnail_lock=...) for every entry of every
\* response, in the order of gather's result list
RECURSIVE CollectEpisodes(_)
CollectEpisodes(resps) ==
    IF resps = <<>> THEN <<>>
    ELSE [i \in 1..Len(Head(resps)) |->
             EpisodeInfo(Head(resps)[i].no, Head(resps)[i].subtitle,
                         Head(resps)[i].thumbnailLock)]
         \o CollectEpisodes(Tail(resps))

SortByNoMissing(ids, h) == ids

\* list.sort(key=lambda x: x.no): ascending and stable
RECURSIVE InsertByNo(_, _, _)
InsertByNo(sorted, id, h) ==
    IF sorted = <<>> THEN <<id>>
    ELSE IF h[Head(sorted)].no <= h[id].no
         THEN <<Head(sorted)>> \o InsertByNo(Tail(sorted), id, h)
         ELSE <<id>> \o sorted

RECURSIVE SortLoop(_, _, _)
SortLoop(ids, acc, h) ==
    IF ids = <<>> THEN acc ELSE SortLoop(Tail(ids), InsertByNo(acc, Head(ids), h), h)

SortByNo(ids, h) == SortLoop(ids, <<>>, h)

\* `continue` in place of `break`
RECURSIVE FindLoopContinue(_, _, _, _)
FindLoopContinue(episodes, i, acc, h) ==
    IF i > Len(episodes) THEN acc
    ELSE IF h[episodes[i]].thumbnail_lock THEN FindLoopContinue(episodes, i + 1, acc, h)
         ELSE FindLoopContinue(episodes, i + 1, Append(acc, episodes[i]), h)

\* the append placed before the lock test
RECURSIVE FindLoopInclusive(_, _, _, _)
FindLoopInclusive(episodes, i, acc, h) ==
    IF i > Len(episodes) THEN acc
    ELSE IF h[episodes[i]].thumbnail_lock THEN Append(acc, episodes[i])
         ELSE FindLoopInclusive(episodes, i + 1, Append(acc, episodes[i]), h)

RECURSIVE FindLoopPrepend(_, _, _, _)
FindLoopPrepend(episodes, i, acc, h) ==
    IF i > Len(episodes) THEN acc
    ELSE IF h[episodes[i]].thumbnail_lock THEN acc
         ELSE FindLoopPrepend(episodes, i + 1, <<episodes[i]>> \o acc, h)

\* the loop of __find_downloadable_episodes: append until the first locked episode
RECURSIVE FindLoop(_, _, _, _)
FindLoop(episodes, i, acc, h) ==
    IF i > Len(episodes) THEN acc
    ELSE IF h[episodes[i]].thumbnail_lock THEN acc
         ELSE FindLoop(episodes, i + 1, Append(acc, episodes[i]), h)

FindDownloadableCountAll(episodes, h) ==
    <<Len(episodes), FindLoop(episodes, 1, <<>>, h)>>

\* return len(downloadable_episodes), downloadable_episodes
FindDownloadableEpisodes(episodes, h) ==
    <<Len(FindLoop(episodes, 1, <<>>, h)), FindLoop(episodes, 1, <<>>, h)>>

\* ---- construction ----
\* a title of the platform: its age rating, the totalCount it reports and the
\* pages it serves (up to MaxPages pages holding up to MaxEpisodes entries
\* together, numbered 1..MaxNo in any order, overlaps included)
BoundedRemote ==
    \E P \in 0..MaxPages :
        \E lens \in [1..P -> 0..MaxEpisodes] :
            /\ SumSeq(lens) <= MaxEpisodes
            /\ \E nos \in [1..SumSeq(lens) -> 1..MaxNo],
                  locks \in [1..SumSeq(lens) -> BOOLEAN],
                  a \in AgeTypes \ {AdultTag} :
                  \* `no` is only a sort key and compared for equality: titles
                  \* are drawn up to renumbering, the numbers in use being 1..m
                  /\ \E m \in 0..MaxNo : Range(nos) = 1..m
                  /\ remote = [age |-> a,
                            totalCount |-> RemoteTotalCount(PagesOf(lens, nos, locks)),
                            pages |-> PagesOf(lens, nos, locks)]

\* an adult title: the list API serves nothing for it without a session
AdultRemote == remote = [age |-> AdultTag, totalCount |-> 0, pages |-> <<>>]

ScenarioRemote ==
    \E desc \in BOOLEAN, a \in AgeTypes \ {AdultTag} :
        remote = [age |-> a, totalCount |-> RemoteTotalCount(ScenarioPages(desc)),
                  pages |-> ScenarioPages(desc)]

\* state right after cls(title_id): the defaults of __init__
Constructed ==
    /\ pc = "constructed"
    /\ metadata = NoMetadata
    /\ requests = <<>>
    /\ tasks = <<>>
    /\ responses = <<>>
    /\ outOfOrder = FALSE
    /\ gatherError = NoError
    /\ error = NoError
    /\ total_count = 0
    /\ downloadable_count = 0
    /\ page_size = 0
    /\ total_pages = 0
    /\ is_adult = FALSE
    /\ downloadable_episodes = <<>>
    /\ full_episodes = <<>>

\* no collector call is under way
CollectorOff ==
    /\ collEpisodes = <<>>
    /\ collMode = "batch"
    /\ batch_size = 1
    /\ detail = <<>>
    /\ collPc = "off"
    /\ collI = 0
    /\ batchTasks = <<>>
    /\ episodes_with_images = <<>>
    /\ detailRequests = <<>>
    /\ answered = <<>>
    /\ pauses = 0
    /\ collError = NoError

ClassifierOff ==
    /\ clsIn = <<>>
    /\ clsOut = <<0, <<>>>>
    /\ clsPrev = <<0, <<>>>>
    /\ clsPc = "off"

Init ==
    /\ BoundedRemote \/ AdultRemote \/ ScenarioRemote
    /\ Constructed
    /\ heap = <<>>
    /\ driver = "awaiting"
    /\ ClassifierOff
    /\ CollectorOff

\* ---- __fetch_webtoon_metadata ----
\* session.get(info_url)
FetchInfoRequest ==
    /\ pc = "constructed"
    /\ pc' = "info_wait"
    /\ requests' = Append(requests, InfoRequest)
    /\ UNCHANGED <<remote, metadata, tasks, responses, outOfOrder, gatherError, error,
                   heap, total_count, downloadable_count, page_size, total_pages,
                   is_adult, downloadable_episodes, full_episodes, clsVars, driver, collVars>>

\* the info response arrives; a non-adult title goes on to session.get(list_url)
FetchInfoResponse ==
    /\ pc = "info_wait"
    /\ \E status \in Statuses :
        IF status # HttpOk
        THEN /\ pc' = "raised"
             /\ error' = Exception("info", 0, status)
             /\ UNCHANGED <<metadata, requests>>
        ELSE IF ~IsAdult(remote.age)
        THEN /\ pc' = "list_wait"
             /\ requests' = Append(requests, ListRequest("resolver", 1))
             /\ UNCHANGED <<metadata, error>>
        ELSE /\ pc' = "metadata"
             /\ metadata' = WebtoonMetadata(TRUE, None, None, None)
             /\ UNCHANGED <<requests, error>>
    /\ UNCHANGED <<remote, tasks, responses, outOfOrder, gatherError, heap,
                   total_count, downloadable_count, page_size, total_pages,
                   is_adult, downloadable_episodes, full_episodes, clsVars, driver, collVars>>

\* the first-page list response arrives
FetchListResponse ==
    /\ pc = "list_wait"
    /\ \E status \in Statuses :
        IF status = HttpOk
        THEN /\ pc' = "metadata"
             /\ metadata' = WebtoonMetadata(FALSE, Some(remote.totalCount),
                                            Some(RemotePageSize(remote.pages)),
                                            Some(Len(remote.pages)))
             /\ error' = error
        ELSE /\ pc' = "raised"
             /\ error' = Exception("list", 1, status)
             /\ metadata' = metadata
    /\ UNCHANGED <<remote, requests, tasks, responses, outOfOrder, gatherError, heap,
                   total_count, downloadable_count, page_size, total_pages,
                   is_adult, downloadable_episodes, full_episodes, clsVars, driver, collVars>>

\* ---- __get_all_episodes ----
\* builds one task per page of range(1, total_pages + 1) and hands them to
\* asyncio.gather; every task issues its request before any response is handled
GetAllEpisodesStart ==
    /\ pc = "metadata"
    /\ IF metadata.total_pages = None
       THEN /\ pc' = "raised"
            /\ error' = TypeError
            /\ UNCHANGED <<requests, tasks, responses>>
       ELSE LET pages == PageRange(metadata.total_pages[1]) IN
            /\ pc' = "gather_wait"
            /\ tasks' = [i \in DOMAIN pages |-> [page |-> pages[i], state |-> "inflight"]]
            /\ responses' = [i \in DOMAIN pages |-> <<>>]
            /\ requests' = requests \o
                  [i \in DOMAIN pages |-> ListRequest("aggregator", pages[i])]
            /\ error' = error
    /\ UNCHANGED <<remote, metadata, outOfOrder, gatherError, heap, total_count,
                   downloadable_count, page_size, total_pages, is_adult,
                   downloadable_episodes, full_episodes, clsVars, driver, collVars>>

\* __get_episode_list_page: the response of one page task arrives. gather keeps
\* the result in the task's slot; the first exception is the one gather raises.
\* Tasks still in flight when gather has raised are not cancelled.
PageResponse(i) ==
    /\ pc \in {"gather_wait", "raised"}
    /\ i \in DOMAIN tasks
    /\ tasks[i].state = "inflight"
    /\ \E status \in Statuses :
        IF status = HttpOk
        THEN /\ tasks' = [tasks EXCEPT ![i].state = "ok"]
             /\ responses' = [responses EXCEPT ![i] = remote.pages[tasks[i].page]]
             /\ gatherError' = gatherError
        ELSE /\ tasks' = [tasks EXCEPT ![i].state = "failed"]
             /\ gatherError' = IF gatherError = NoError
                               THEN Exception("page", tasks[i].page, status)
                               ELSE gatherError
             /\ responses' = responses
    /\ outOfOrder' = (outOfOrder \/ \E j \in 1..(i - 1) : tasks[j].state = "inflight")
    /\ UNCHANGED <<remote, pc, metadata, requests, error, heap, total_count,
                   downloadable_count, page_size, total_pages, is_adult,
                   downloadable_episodes, full_episodes, clsVars, driver, collVars>>

\* gather re-raises the first exception; it leaves __get_all_episodes,
\* __init_analysis and create
GatherRaise ==
    /\ pc = "gather_wait"
    /\ gatherError # NoError
    /\ pc' = "raised"
    /\ error' = gatherError
    /\ UNCHANGED <<remote, metadata, requests, tasks, responses, outOfOrder,
                   gatherError, heap, total_count, downloadable_count, page_size,
                   total_pages, is_adult, downloadable_episodes, full_episodes, clsVars, driver, collVars>>

\* asyncio.gather(*tasks) without return_exceptions: a result list only when
\* every task returned one
GatherDoneIgnoringFailures(ts) == \A i \in DOMAIN ts : ts[i].state # "inflight"

GatherDone(ts) == \A i \in DOMAIN ts : ts[i].state = "ok"

\* gather returns the result list; the rest of __get_all_episodes, the
\* classification and the assignments of __init_analysis run without suspension,
\* and create returns the instance
FinishAnalysis ==
    /\ pc = "gather_wait"
    /\ GatherDone(tasks)
    /\ LET objs == CollectEpisodes(responses)
           all_episodes == SortByNo([i \in 1..Len(objs) |-> i], objs)
           found == FindDownloadableEpisodes(all_episodes, objs)
       IN /\ heap' = objs
          /\ total_count' = OrZero(metadata.total_count)
          /\ downloadable_count' = found[1]
          /\ page_size' = OrZero(metadata.page_size)
          /\ total_pages' = OrZero(metadata.total_pages)
          /\ is_adult' = metadata.is_adult
          /\ downloadable_episodes' = found[2]
          /\ full_episodes' = all_episodes
    /\ pc' = "returned"
    /\ UNCHANGED <<remote, metadata, requests, tasks, responses, outOfOrder,
                   gatherError, error, clsVars, driver, collVars>>

\* ---- the callers ----
\* WebtoonAnalyzer(title_id) called directly: __init__ is an ordinary public
\* constructor, and the caller holds the instance with the defaults of __init__
ConstructDirect ==
    /\ pc = "constructed"
    /\ driver = "awaiting"
    /\ pc' = "shell"
    /\ driver' = "direct"
    /\ UNCHANGED <<remote, metadata, requests, tasks, responses, outOfOrder,
                   gatherError, error, heap, total_count, downloadable_count,
                   page_size, total_pages, is_adult, downloadable_episodes,
                   full_episodes, clsVars, collVars>>

\* the names WebtoonAnalyzer answers to: its @property definitions (the fields
\* of __init__ are name-mangled private attributes)
AnalyzerProperties ==
    {"total_count", "downloadable_count", "page_size", "total_pages",
     "downloadable_episodes", "full_episodes", "title_id"}

\* test_webtoon, test_analyzer_properties: `if analyzer.is_adult:` right after
\* create has returned
DriverReadIsAdult ==
    /\ pc = "returned"
    /\ driver = "awaiting"
    /\ driver' = IF "is_adult" \notin AnalyzerProperties THEN "AttributeError"
                 ELSE IF is_adult THEN "adult_message" ELSE "report"
    /\ UNCHANGED <<remote, pc, metadata, requests, tasks, responses, outOfOrder,
                   gatherError, error, heap, total_count, downloadable_count,
                   page_size, total_pages, is_adult, downloadable_episodes,
                   full_episodes, clsVars, collVars>>

Next ==
    \/ ConstructDirect
    \/ DriverReadIsAdult
    \/ FetchInfoRequest
    \/ FetchInfoResponse
    \/ FetchListResponse
    \/ GetAllEpisodesStart
    \/ \E i \in 1..(MaxPages + 1) : PageResponse(i)
    \/ GatherRaise
    \/ FinishAnalysis

Spec == Init /\ [][Next]_vars


\* ---- the classifier on its own ----
\* __find_downloadable_episodes is a pure function of the list it is given; the
\* harness hands it every list of up to MaxEpisodes episodes, sorted or not, and
\* then flips locks behind the first locked episode.
LockedPositions(episodes, h) == {i \in DOMAIN episodes : h[episodes[i]].thumbnail_lock}

\* number of episodes in front of the first locked one (all of them when none is locked)
FirstLock(episodes, h) ==
    IF LockedPositions(episodes, h) = {} THEN Len(episodes)
    ELSE (CHOOSE i \in LockedPositions(episodes, h) :
              \A j \in LockedPositions(episodes, h) : i <= j) - 1

InitClassify ==
    /\ remote = [age |-> "RATE_ALL", totalCount |-> 0, pages |-> <<>>]
    /\ Constructed
    /\ \E n \in 0..MaxEpisodes :
          \E nos \in [1..n -> 1..MaxNo], locks \in [1..n -> BOOLEAN] :
              heap = [i \in 1..n |-> EpisodeInfo(nos[i], <<0, i>>, locks[i])]
    /\ clsIn = [i \in 1..Len(heap) |-> i]
    /\ clsOut = <<0, <<>>>>
    /\ clsPrev = <<0, <<>>>>
    /\ clsPc = "ready"
    /\ driver = "awaiting"
    /\ CollectorOff

ClsCall ==
    /\ clsPc = "ready"
    /\ clsOut' = FindDownloadableEpisodes(clsIn, heap)
    /\ clsPc' = "called"
    /\ UNCHANGED <<analyzerVars, heap, clsIn, clsPrev, collVars>>

\* flip thumbnail_lock of an episode behind the first locked one and classify again
ClsFlip(j) ==
    /\ clsPc \in {"called", "flipped"}
    /\ j \in DOMAIN clsIn
    /\ j > FirstLock(clsIn, heap) + 1
    /\ heap' = [heap EXCEPT ![clsIn[j]].thumbnail_lock = ~@]
    /\ clsPrev' = clsOut
    /\ clsOut' = FindDownloadableEpisodes(clsIn, heap')
    /\ clsPc' = "flipped"
    /\ UNCHANGED <<analyzerVars, clsIn, collVars>>

NextClassify ==
    \/ ClsCall
    \/ \E j \in 1..(MaxEpisodes + 1) : ClsFlip(j)

SpecClassify == InitClassify /\ [][NextClassify]_vars

\* ---- WebtoonDownloader: the detail page of an episode ----
\* an <img> tag of the page: whether it lies inside div#sectionContWide, and
\* its src attribute ("" for src="": img.get("src") is then falsy, as is the
\* None of a missing attribute)
Img(inside, src) == [inside |-> inside, src |-> src]

\* a page with the container: two images inside it, one outside it, and one
\* inside it with an empty src
DocImages ==
    [decodes |-> TRUE, marker |-> TRUE,
     imgs |-> <<Img(TRUE, "a"), Img(FALSE, "x"), Img(TRUE, ""), Img(TRUE, "b")>>]

\* a page without the container
DocNoMarker == [decodes |-> TRUE, marker |-> FALSE, imgs |-> <<Img(FALSE, "x")>>]

\* a body that response.text() or the parser raises on
DocBroken == [decodes |-> FALSE, marker |-> FALSE, imgs |-> <<>>]

Docs == {DocImages, DocNoMarker, DocBroken}

\* session.get answered with a status and a body
Response(status, doc) == [kind |-> "response", status |-> status, doc |-> doc]

\* session.get raised (connection refused, timeout, ...)
ClientError == [kind |-> "raise", status |-> 0, doc |-> DocBroken]

DetailOutcomes ==
    {Response(HttpOk, d) : d \in Docs} \cup {Response(500, DocImages), ClientError}

SectionImgTagsAll(doc) == doc.imgs

\* section.find_all("img")
SectionImgTags(doc) == SelectSeq(doc.imgs, LAMBDA t : t.inside)

\* for img in img_tags: src = img.get("src"); if src: img_urls.append(src)
RECURSIVE ImgLoop(_, _)
ImgLoop(img_tags, img_urls) ==
    IF img_tags = <<>> THEN img_urls
    ELSE ImgLoop(Tail(img_tags),
                 IF Head(img_tags).src # "" THEN Append(img_urls, Head(img_tags).src)
                 ELSE img_urls)

ImgUrlsIgnoringStatus(outcome) ==
    IF outcome.kind = "raise" THEN <<>>
    ELSE IF ~outcome.doc.decodes THEN <<>>
    ELSE IF outcome.doc.marker THEN ImgLoop(SectionImgTags(outcome.doc), <<>>)
    ELSE <<>>

\* get_episode_images: what is assigned to episode.img_urls
ImgUrls(outcome) ==
    IF outcome.kind = "raise" THEN <<>>
    ELSE IF outcome.status = HttpOk
         THEN IF ~outcome.doc.decodes THEN <<>>
              ELSE IF outcome.doc.marker
                   THEN ImgLoop(SectionImgTags(outcome.doc), <<>>)
                   ELSE <<>>
         ELSE <<>>

TaskResultReraise(outcome) ==
    IF outcome.kind = "raise" \/ ~outcome.doc.decodes THEN "exception" ELSE "episode"

\* get_episode_images: `except Exception` swallows the failure and the
\* coroutine ends in `return episode`
TaskResult(outcome) == "episode"

\* ---- WebtoonDownloader: the collectors ----
ValueError == [kind |-> "ValueError", src |-> "range", page |-> 0, status |-> 0]

Min(a, b) == IF a < b THEN a ELSE b

\* i is produced by range(0, total, step) continued from i
InRange(i, total, step) == IF step > 0 THEN i < total ELSE i > total

ChunkOverlap(eps, i, b) == SubSeq(eps, i + 1, Min(i + b + 1, Len(eps)))

\* episodes[i : i + batch_size]
Chunk(eps, i, b) == SubSeq(eps, i + 1, Min(i + b, Len(eps)))

NeedsPauseAlways(i, b, total) == i + b <= total

\* if i + batch_size < total_episodes: await asyncio.sleep(1)
NeedsPause(i, b, total) == i + b < total

ChunkDoneAny(ts) == \E j \in DOMAIN ts : ts[j].state = "done"

\* await asyncio.gather(*tasks) resumes once every task has finished
ChunkDone(ts) == \A j \in DOMAIN ts : ts[j].state = "done"

TaskIdsReversed(ts) == [j \in DOMAIN ts |-> ts[Len(ts) + 1 - j].id]

\* the results of a gather are the tasks' episodes, by task position
TaskIds(ts) == [j \in DOMAIN ts |-> ts[j].id]

\* tasks = [get_episode_images(episode) for episode in batch]; each task issues
\* its request when the gather starts it
NewTasks(batch) == [j \in DOMAIN batch |-> [id |-> batch[j], state |-> "inflight", result |-> "none"]]

\* a call of one of the two collectors on fresh EpisodeInfo objects no = 1..n,
\* all with empty img_urls or all with img_urls left by an earlier collection
\* a call of one of the two collectors on the list eps
CollectCallOn(eps, mode, b) ==
    /\ collEpisodes = eps
    /\ collMode = mode
    /\ batch_size = b
    /\ collPc = "ready"
    /\ collI = 0
    /\ batchTasks = <<>>
    /\ episodes_with_images = <<>>
    /\ detailRequests = <<>>
    /\ answered = <<>>
    /\ pauses = 0
    /\ collError = NoError

CollectCallOf(n, prefilled, mode, b) ==
    /\ heap = [k \in 1..n |-> [EpisodeInfo(k, <<0, k>>, FALSE) EXCEPT
                                  !.img_urls = IF prefilled THEN <<"old">> ELSE <<>>]]
    /\ CollectCallOn([k \in 1..n |-> k], mode, b)

\* the worked example of the batch collector: 12 episodes, batch size 5
ScenarioEpisodes == 12
ScenarioBatch == 5

InitCollect ==
    /\ remote = [age |-> "RATE_ALL", totalCount |-> 0, pages |-> <<>>]
    /\ Constructed
    /\ ClassifierOff
    /\ driver = "awaiting"
    /\ \/ \E n \in 0..MaxEpisodes, prefilled \in BOOLEAN :
            /\ detail \in [1..n -> DetailOutcomes]
            /\ \/ CollectCallOf(n, prefilled, "all", 1)
               \/ \E b \in -1..MaxEpisodes : CollectCallOf(n, prefilled, "batch", b)
       \/ /\ detail = [k \in 1..ScenarioEpisodes |-> Response(HttpOk, DocImages)]
          /\ CollectCallOf(ScenarioEpisodes, FALSE, "batch", ScenarioBatch)

\* the next iteration of `for i in range(0, total_episodes, batch_size)`, or
\* the return after the loop
LoopNext(i) ==
    /\ collI' = i
    /\ IF InRange(i, Len(collEpisodes), batch_size)
       THEN /\ batchTasks' = NewTasks(Chunk(collEpisodes, i, batch_size))
            /\ detailRequests' = detailRequests \o Chunk(collEpisodes, i, batch_size)
            /\ collPc' = "gather_wait"
       ELSE /\ batchTasks' = <<>>
            /\ detailRequests' = detailRequests
            /\ collPc' = "done"

\* get_episodes_with_images_batch up to its first await
CollectBatchCall ==
    /\ collPc = "ready"
    /\ collMode = "batch"
    /\ IF collEpisodes = <<>>
       THEN /\ collPc' = "done"
            /\ UNCHANGED <<collI, batchTasks, detailRequests, collError>>
       ELSE IF batch_size = 0
       THEN /\ collPc' = "raised"
            /\ collError' = ValueError
            /\ UNCHANGED <<collI, batchTasks, detailRequests>>
       ELSE /\ LoopNext(0)
            /\ UNCHANGED collError
    /\ UNCHANGED <<analyzerVars, clsVars, heap, collEpisodes, collMode, batch_size,
                   detail, episodes_with_images, answered, pauses>>

\* get_episodes_with_images up to its await
CollectAllCall ==
    /\ collPc = "ready"
    /\ collMode = "all"
    /\ IF collEpisodes = <<>>
       THEN /\ collPc' = "done"
            /\ UNCHANGED <<batchTasks, detailRequests>>
       ELSE /\ batchTasks' = NewTasks(collEpisodes)
            /\ detailRequests' = detailRequests \o collEpisodes
            /\ collPc' = "gather_wait"
    /\ UNCHANGED <<analyzerVars, clsVars, heap, collEpisodes, collMode, batch_size,
                   detail, collI, episodes_with_images, answered, pauses, collError>>

SetImgUrlsFresh(h, id, urls) ==
    [h EXCEPT ![id] = [EpisodeInfo(h[id].no, h[id].subtitle, FALSE) EXCEPT !.img_urls = urls]]

\* episode.img_urls = img_urls: an assignment to one field of the instance
SetImgUrls(h, id, urls) == [h EXCEPT ![id].img_urls = urls]

\* get_episode_images of task j from the answer of the platform to its end
DetailResponse(j) ==
    /\ collPc = "gather_wait"
    /\ j \in DOMAIN batchTasks
    /\ batchTasks[j].state = "inflight"
    /\ LET id == batchTasks[j].id
           outcome == detail[heap[id].no]
       IN /\ heap' = SetImgUrls(heap, id, ImgUrls(outcome))
          /\ batchTasks' = [batchTasks EXCEPT ![j].state = "done",
                                              ![j].result = TaskResult(outcome)]
          /\ answered' = Append(answered, id)
    /\ UNCHANGED <<analyzerVars, clsVars, collEpisodes, collMode, batch_size, detail,
                   collPc, collI, episodes_with_images, detailRequests, pauses,
                   collError>>

\* get_episodes_with_images_batch from the return of gather(return_exceptions=True)
\* to the next await or the return
BatchGatherReturn ==
    /\ collPc = "gather_wait"
    /\ collMode = "batch"
    /\ ChunkDone(batchTasks)
    /\ heap' = [id \in DOMAIN heap |->
                  IF \E j \in DOMAIN batchTasks :
                        batchTasks[j].id = id /\ batchTasks[j].result = "exception"
                  THEN SetImgUrls(heap, id, <<>>)[id]
                  ELSE heap[id]]
    /\ episodes_with_images' = episodes_with_images \o TaskIds(batchTasks)
    /\ IF NeedsPause(collI, batch_size, Len(collEpisodes))
       THEN /\ collPc' = "sleeping"
            /\ pauses' = pauses + 1
            /\ batchTasks' = <<>>
            /\ UNCHANGED <<collI, detailRequests>>
       ELSE /\ LoopNext(collI + batch_size)
            /\ UNCHANGED pauses
    /\ UNCHANGED <<analyzerVars, clsVars, collEpisodes, collMode, batch_size, detail,
                   answered, collError>>

\* asyncio.sleep(1) is over
Wake ==
    /\ collPc = "sleeping"
    /\ LoopNext(collI + batch_size)
    /\ UNCHANGED <<analyzerVars, clsVars, heap, collEpisodes, collMode, batch_size,
                   detail, episodes_with_images, answered, pauses, collError>>

\* get_episodes_with_images from the return of gather to its return
AllGatherReturn ==
    /\ collPc = "gather_wait"
    /\ collMode = "all"
    /\ ChunkDone(batchTasks)
    /\ IF \E j \in DOMAIN batchTasks : batchTasks[j].result = "exception"
       THEN /\ collPc' = "raised"
            /\ collError' = Exception("detail", 0, 0)
            /\ UNCHANGED episodes_with_images
       ELSE /\ collPc' = "done"
            /\ episodes_with_images' = TaskIds(batchTasks)
            /\ UNCHANGED collError
    /\ batchTasks' = <<>>
    /\ UNCHANGED <<analyzerVars, clsVars, heap, collEpisodes, collMode, batch_size,
                   detail, collI, detailRequests, answered, pauses>>

NextCollect ==
    \/ CollectBatchCall
    \/ CollectAllCall
    \/ \E j \in 1..ScenarioEpisodes : DetailResponse(j)
    \/ BatchGatherReturn
    \/ Wake
    \/ AllGatherReturn

SpecCollect == InitCollect /\ [][NextCollect]_vars

\* ---- the collectors called on the episodes of an analysis ----
\* the state in which create has returned the analysis of the title `remote`
\* (its page fetches answered in page order), as FinishAnalysis leaves it
Returned ==
    LET P == Len(remote.pages)
        objs == CollectEpisodes(remote.pages)
        all_episodes == SortByNo([i \in 1..Len(objs) |-> i], objs)
        found == FindDownloadableEpisodes(all_episodes, objs)
    IN /\ pc = "returned"
       /\ metadata = WebtoonMetadata(FALSE, Some(remote.totalCount),
                                     Some(RemotePageSize(remote.pages)), Some(P))
       /\ requests = <<InfoRequest, ListRequest("resolver", 1)>> \o
                        [p \in 1..P |-> ListRequest("aggregator", p)]
       /\ tasks = [p \in 1..P |-> [page |-> p, state |-> "ok"]]
       /\ responses = remote.pages
       /\ outOfOrder = FALSE
       /\ gatherError = NoError
       /\ error = NoError
       /\ heap = objs
       /\ total_count = remote.totalCount
       /\ downloadable_count = found[1]
       /\ page_size = RemotePageSize(remote.pages)
       /\ total_pages = P
       /\ is_adult = FALSE
       /\ downloadable_episodes = found[2]
       /\ full_episodes = all_episodes

\* a title of one page of k episodes numbered 1..k has been analysed; the
\* caller hands downloadable_episodes, full_episodes, or a list naming one
\* of the episodes twice to one of the collectors
InitDownload ==
    /\ \E k \in 1..MaxEpisodes :
          /\ \E locks \in [1..k -> BOOLEAN] :
                remote = [age |-> "RATE_ALL", totalCount |-> k,
                          pages |-> PagesOf(<<k>>, [i \in 1..k |-> i], locks)]
          /\ detail \in [1..k -> {Response(HttpOk, DocImages), ClientError}]
    /\ Returned
    /\ ClassifierOff
    /\ driver = "awaiting"
    /\ \E eps \in {downloadable_episodes, full_episodes}
                   \cup {<<e, e>> : e \in DOMAIN heap} :
          \/ CollectCallOn(eps, "all", 1)
          \/ \E b \in 1..MaxEpisodes : CollectCallOn(eps, "batch", b)

SpecDownload == InitDownload /\ [][NextCollect]_vars


\* ---- vocabulary of the properties ----
Terminal == pc \in {"raised", "returned"}

\* __fetch_webtoon_metadata has returned its WebtoonMetadata
Resolved ==
    \/ pc \in {"metadata", "gather_wait", "returned"}
    \/ pc = "raised" /\ error.src \in {"range", "page"}

\* the page tasks have been handed to gather
Launched ==
    \/ pc \in {"gather_wait", "returned"}
    \/ pc = "raised" /\ error.src = "page"

AggregatorRequests == SelectSeq(requests, LAMBDA r : r.by = "aggregator")
ListRequests == SelectSeq(requests, LAMBDA r : r.kind = "list")

NosOf(episodes, h) == [i \in DOMAIN episodes |-> h[episodes[i]].no]

NonDecreasing(ns) == \A i, j \in DOMAIN ns : i < j => ns[i] <= ns[j]

CountOf(ns, n) == Cardinality({i \in DOMAIN ns : ns[i] = n})

HasDuplicate(ns) == \E i, j \in DOMAIN ns : i # j /\ ns[i] = ns[j]

ServedNos(pages) == [i \in DOMAIN Flatten(pages) |-> Flatten(pages)[i].no]

\* the episode numbers the pages serve, listed in ascending order with their
\* multiplicities: a function of the page contents alone
AscendingNos(pages) ==
    LET ns == ServedNos(pages)
        top == IF ns = <<>> THEN 0
               ELSE CHOOSE m \in Range(ns) : \A n \in Range(ns) : n <= m
    IN Flatten([n \in 1..top |-> [i \in 1..CountOf(ns, n) |-> n]])

InitialShell ==
    /\ total_count = 0
    /\ downloadable_count = 0
    /\ page_size = 0
    /\ total_pages = 0
    /\ downloadable_episodes = <<>>
    /\ full_episodes = <<>>
    /\ heap = <<>>

\* C1: for an adult title the analysis ends in a distinct AdultContentUnsupported
\* outcome: not a returned analysis, not the generic exception of a failed
\* request, not a programming error; and no page-list request was attempted.
C1_AdultContentUnsupported ==
    (Terminal /\ metadata.is_adult) =>
        /\ pc = "raised"
        /\ error.kind \notin {"none", "Exception", "TypeError"}
        /\ ListRequests = <<>>

\* C2: once one page request has returned a non-success status, create never
\* returns an instance and no episode list exists, whatever the other page
\* fetches do; the error that leaves create is that of the first failed page.
C2_PageFailureFailsAll ==
    (\E i \in DOMAIN tasks : tasks[i].state = "failed") =>
        /\ pc \in {"gather_wait", "raised"}
        /\ InitialShell
        /\ pc = "raised" => (error = gatherError /\ error.kind = "Exception"
                             /\ error.src = "page" /\ error.status # HttpOk)

\* C2 witness: page 2 failed while page 1 was in flight, page 1 succeeded
\* afterwards, create raised.
C2_Witness ==
    /\ pc = "raised"
    /\ Len(tasks) = 2
    /\ tasks[2].state = "failed"
    /\ tasks[1].state = "ok"
    /\ responses[1] # <<>>
    /\ outOfOrder

\* C3: the returned list is in ascending order of `no`, and its sequence of
\* episode numbers is the one fixed by the page contents, for every order in
\* which the page fetches completed.
C3_SortedWhateverOrder ==
    pc = "returned" =>
        /\ NonDecreasing(NosOf(full_episodes, heap))
        /\ NosOf(full_episodes, heap) = AscendingNos(remote.pages)

\* C3 witness: page 2 completed before page 1 and the pages, read in page
\* order, are not in ascending order.
C3_Witness ==
    /\ pc = "returned"
    /\ outOfOrder
    /\ Len(tasks) = 2
    /\ ~NonDecreasing(ServedNos(remote.pages))

\* C4: with P >= 1 pages the aggregator issues exactly P page requests, one for
\* each page 1..P; when all succeed the list has as many entries as the pages
\* together, and every `no` as often as the pages serve it.
C4_OneRequestPerPage ==
    (Launched /\ metadata.total_pages[1] >= 1) =>
        /\ LET asked == AggregatorRequests IN
              /\ Len(asked) = metadata.total_pages[1]
              /\ \A p \in 1..metadata.total_pages[1] :
                    Cardinality({i \in DOMAIN asked : asked[i].page = p}) = 1
        /\ pc = "returned" =>
              /\ Len(full_episodes) = SumSeq([p \in DOMAIN remote.pages |->
                                                 Len(remote.pages[p])])
              /\ \A n \in RemoteNos(remote.pages) :
                    CountOf(NosOf(full_episodes, heap), n)
                        = CountOf(ServedNos(remote.pages), n)

\* C4 witness: two pages that both serve the same `no`; both copies are kept.
C4_Witness ==
    /\ pc = "returned"
    /\ Len(remote.pages) = 2
    /\ \E a \in Range(remote.pages[1]), b \in Range(remote.pages[2]) : a.no = b.no
    /\ Len(full_episodes) = 3

\* C5 as stated: the returned list is sorted and no two entries share a `no`.
C5_SortedNoDuplicates ==
    pc = "returned" =>
        /\ NonDecreasing(NosOf(full_episodes, heap))
        /\ ~HasDuplicate(NosOf(full_episodes, heap))

\* C5 amended: the returned list is in non-decreasing order of `no`, and two of
\* its entries share a `no` exactly when the page responses together serve that
\* `no` more than once.
C5_SortedDuplicatesKept ==
    pc = "returned" =>
        /\ NonDecreasing(NosOf(full_episodes, heap))
        /\ \A n \in RemoteNos(remote.pages) \cup Range(NosOf(full_episodes, heap)) :
              (CountOf(NosOf(full_episodes, heap), n) > 1)
                  <=> (CountOf(ServedNos(remote.pages), n) > 1)

\* C5 witness: overlapping pages, and the list holds the shared `no` twice, side by side.
C5_Witness ==
    /\ pc = "returned"
    /\ Len(remote.pages) = 2
    /\ \E a \in Range(remote.pages[1]), b \in Range(remote.pages[2]) : a.no = b.no
    /\ \E i \in DOMAIN full_episodes :
          /\ i + 1 \in DOMAIN full_episodes
          /\ heap[full_episodes[i]].no = heap[full_episodes[i + 1]].no

\* C6: the classifier returns (k, seq[:k]) where k is the 0-indexed position of
\* the first locked episode, and (len(seq), seq) when none is locked.
C6_ClassifyPrefix ==
    clsPc \in {"called", "flipped"} =>
        clsOut = <<FirstLock(clsIn, heap), SubSeq(clsIn, 1, FirstLock(clsIn, heap))>>

\* C6 witness: three episodes, the second is the first locked one, the third is unlocked.
C6_Witness ==
    /\ clsPc = "called"
    /\ Len(clsIn) = 3
    /\ LockedPositions(clsIn, heap) = {2}
    /\ clsOut[1] = 1

\* C7: flipping the lock of an episode behind the first locked one leaves the
\* classifier's count and prefix unchanged.
C7_FlipAfterFirstLock ==
    clsPc = "flipped" => clsOut = clsPrev

\* C7 witness: a flip has unlocked an episode behind the first locked one.
C7_Witness ==
    /\ clsPc = "flipped"
    /\ \E j \in DOMAIN clsIn :
          /\ j > FirstLock(clsIn, heap) + 1
          /\ ~heap[clsIn[j]].thumbnail_lock
    /\ clsOut[1] >= 1

\* C8: in a returned analysis downloadable_count is the length of
\* downloadable_episodes, which is the part of full_episodes in front of its
\* first locked episode: nothing locked, nothing from behind a locked episode.
C8_DownloadablePrefix ==
    pc = "returned" =>
        /\ downloadable_count = Len(downloadable_episodes)
        /\ downloadable_episodes
              = SubSeq(full_episodes, 1, FirstLock(full_episodes, heap))
        /\ \A i \in DOMAIN downloadable_episodes :
              /\ ~heap[downloadable_episodes[i]].thumbnail_lock
              /\ \A j \in DOMAIN full_episodes :
                    full_episodes[j] = downloadable_episodes[i] =>
                        \A m \in 1..j : ~heap[full_episodes[m]].thumbnail_lock

\* C8 witness: an unlocked episode, then a locked one, then an unlocked one.
C8_Witness ==
    /\ pc = "returned"
    /\ Len(full_episodes) = 3
    /\ LockedPositions(full_episodes, heap) = {2}
    /\ downloadable_count = 1

\* C9: a returned analysis carries the total count the platform reported, the
\* classifier's count and every aggregated episode; in the scenario of 20/20/5
\* episodes with episode 30 and up locked, 29 are downloadable out of 45.
C9_AnalysisResult ==
    pc = "returned" =>
        /\ ~metadata.is_adult
        /\ total_count = remote.totalCount
        /\ metadata.total_count = Some(total_count)
        /\ downloadable_count = FirstLock(full_episodes, heap)
        /\ Range(full_episodes) = 1..Len(heap)
        /\ Len(full_episodes) = Len(heap)
        /\ Len(heap) = Len(Flatten(remote.pages))
        /\ IsScenario(remote.pages) =>
              (downloadable_count = 29 /\ Len(full_episodes) = 45)

\* C9 witness: the scenario, its three page fetches completing out of page order.
C9_Witness ==
    /\ pc = "returned"
    /\ IsScenario(remote.pages)
    /\ outOfOrder
    /\ downloadable_count = 29

\* C10: the metadata of an adult title has is_adult set and the three paging
\* fields unset, and no list request was issued for it; that of any other title
\* has the three fields set from the first-page list response; the three are
\* unset together, exactly when is_adult holds.
C10_MetadataPagingFields ==
    Resolved =>
        /\ metadata.is_adult <=> (remote.age = AdultTag)
        /\ metadata.is_adult =>
              /\ metadata.total_count = None
              /\ metadata.page_size = None
              /\ metadata.total_pages = None
              /\ ListRequests = <<>>
        /\ ~metadata.is_adult =>
              /\ metadata.total_count = Some(remote.totalCount)
              /\ metadata.page_size = Some(RemotePageSize(remote.pages))
              /\ metadata.total_pages = Some(Len(remote.pages))
              /\ ListRequests # <<>>
              /\ ListRequests[1] = ListRequest("resolver", 1)

\* C10 witness: the metadata of an adult title, resolved after the info request alone.
C10_Witness ==
    /\ pc = "metadata"
    /\ metadata.is_adult
    /\ requests = <<InfoRequest>>

\* C11: when the info request or the first-page list request returns a
\* non-success status, resolve fails with an exception that carries that
\* status and returns no metadata; a list request is only ever issued after a
\* successful info response, so none follows a failed info request.
C11_ResolveFailsWithStatus ==
    /\ (pc = "raised" /\ error.src \in {"info", "list"}) =>
          /\ error.kind = "Exception"
          /\ error.status \in Statuses \ {HttpOk}
          /\ metadata = NoMetadata
          /\ InitialShell
          /\ AggregatorRequests = <<>>
          /\ error.src = "info" => requests = <<InfoRequest>>
          /\ error.src = "list" => requests = <<InfoRequest, ListRequest("resolver", 1)>>
    /\ ListRequests # <<>> =>
          /\ requests[1] = InfoRequest
          /\ pc \notin {"constructed", "info_wait"}
          /\ ~(pc = "raised" /\ error.src = "info")

\* C11 witness: the info request succeeded and the first-page list request failed.
C11_Witness ==
    /\ pc = "raised"
    /\ error.src = "list"
    /\ error.status = 500
    /\ Len(requests) = 2

\* ---- property vocabulary of the collectors ----
\* the detail request of an episode fails: transport error, non-success status,
\* or a body that cannot be read
Fails(o) == o.kind = "raise" \/ o.status # HttpOk \/ ~o.doc.decodes

\* the image sources the detail document of an episode yields
OwnUrls(o) ==
    IF Fails(o) \/ ~o.doc.marker THEN <<>>
    ELSE LET t == SelectSeq(o.doc.imgs, LAMBDA x : x.inside /\ x.src # "")
         IN [k \in DOMAIN t |-> t[k].src]

UrlsOf(id) == heap[id].img_urls
DetailOf(id) == detail[heap[id].no]

\* detail requests issued and not yet answered
InFlight == Len(detailRequests) - Len(answered)

\* the batch collector was called with a batch size >= 1
BatchRun == collMode = "batch" /\ batch_size >= 1

CeilDiv(n, b) == (n + b - 1) \div b

\* C12: get_episode_images never raises: every finished extraction task
\* returned its episode, and on a transport error, a non-success status or a
\* parse anomaly the episode's img_urls is empty afterwards, whatever it held
\* before; so the unbounded collector, which does not shield its gather,
\* never raises either.
C12_ExtractNeverFails ==
    /\ \A j \in DOMAIN batchTasks :
          batchTasks[j].state = "done" => batchTasks[j].result = "episode"
    /\ \A k \in DOMAIN answered :
          (Fails(DetailOf(answered[k])) \/ ~DetailOf(answered[k]).doc.marker)
              => UrlsOf(answered[k]) = <<>>
    /\ collMode = "all" => collPc # "raised"

\* C12 witness: one extraction hit a transport error and one a non-success
\* status, both episodes now have empty img_urls, while a sibling still in
\* flight shows the img_urls the episodes carried before.
C12_Witness ==
    \E i, j, k \in DOMAIN batchTasks :
        /\ batchTasks[i].state = "done"
        /\ DetailOf(batchTasks[i].id) = ClientError
        /\ UrlsOf(batchTasks[i].id) = <<>>
        /\ batchTasks[j].state = "done"
        /\ DetailOf(batchTasks[j].id) = Response(500, DocImages)
        /\ UrlsOf(batchTasks[j].id) = <<>>
        /\ batchTasks[k].state = "inflight"
        /\ UrlsOf(batchTasks[k].id) = <<"old">>

\* C13: in the batch collector every episode whose request was answered holds
\* exactly the img_urls its own detail response yields (empty when it failed),
\* every episode not yet answered is untouched, and the call goes on to the
\* later chunks: at its return every episode was requested and answered.
C13_FailureIsolated ==
    BatchRun =>
        /\ \A id \in Range(answered) : UrlsOf(id) = OwnUrls(DetailOf(id))
        /\ \A id \in DOMAIN heap \ Range(answered) : UrlsOf(id) \in {<<>>, <<"old">>}
        /\ collPc # "raised"
        /\ collPc = "done" =>
              /\ Range(answered) = Range(collEpisodes)
              /\ Len(answered) = Len(collEpisodes)

\* C13 witness: three episodes in chunks of two; the first failed, its chunk
\* sibling and the episode of the later chunk got their own images.
C13_Witness ==
    /\ collPc = "done"
    /\ collMode = "batch"
    /\ batch_size = 2
    /\ Len(collEpisodes) = 3
    /\ Fails(DetailOf(1))
    /\ UrlsOf(1) = <<>>
    /\ UrlsOf(2) = <<"a", "b">>
    /\ UrlsOf(3) = <<"a", "b">>

\* C14: for every batch size >= 1 the result list of the batch collector is at
\* all times a prefix of the input list, and at the return it is the input
\* list: one entry per input, the same instances in the same order.
C14_OneEntryPerInputInOrder ==
    BatchRun =>
        /\ Len(episodes_with_images) <= Len(collEpisodes)
        /\ episodes_with_images = SubSeq(collEpisodes, 1, Len(episodes_with_images))
        /\ collPc # "raised"
        /\ collPc = "done" => episodes_with_images = collEpisodes

\* C14 witness: in the first chunk the second request was answered before the
\* first and failed; the result is still in input order.
C14_Witness ==
    /\ collPc = "done"
    /\ collMode = "batch"
    /\ batch_size = 2
    /\ answered = <<2, 1, 3>>
    /\ Fails(DetailOf(2))
    /\ episodes_with_images = <<1, 2, 3>>

\* C15: for a non-empty list and any integer batch size the batch collector
\* returns normally with one entry per input.
C15_CollectNeverFails ==
    (collMode = "batch" /\ collEpisodes # <<>>) =>
        /\ collPc # "raised"
        /\ collPc = "done" => Len(episodes_with_images) = Len(collEpisodes)

\* C16: the chunks are the consecutive slices of batch_size episodes, the last
\* one possibly shorter; a pause follows every chunk but the last, so the call
\* returns after ceil(n / batch_size) - 1 pauses (12 episodes, batch size 5:
\* chunks of 5, 5, 2 and 2 pauses).
C16_ChunksAndPauses ==
    (BatchRun /\ collEpisodes # <<>>) =>
        LET n == Len(collEpisodes)
            b == batch_size
        IN /\ collPc = "gather_wait" =>
                 /\ collI % b = 0
                 /\ collI < n
                 /\ Len(batchTasks) = (IF collI + b <= n THEN b ELSE n - collI)
                 /\ \A j \in DOMAIN batchTasks : batchTasks[j].id = collEpisodes[collI + j]
                 /\ pauses = collI \div b
           /\ collPc = "sleeping" =>
                 /\ collI + b < n
                 /\ pauses = (collI \div b) + 1
           /\ collPc = "done" =>
                 /\ pauses = CeilDiv(n, b) - 1
                 /\ detailRequests = collEpisodes
           /\ (n = 12 /\ b = 5) =>
                 /\ collPc = "gather_wait" =>
                       <<collI, Len(batchTasks)>> \in {<<0, 5>>, <<5, 5>>, <<10, 2>>}
                 /\ collPc = "done" => pauses = 2

\* C16 witness: the 12 episodes were collected in batches of 5, with 2 pauses.
C16_Witness ==
    /\ collPc = "done"
    /\ Len(collEpisodes) = 12
    /\ batch_size = 5
    /\ pauses = 2
    /\ Len(episodes_with_images) = 12

\* C17: with batch size 1, with batch size len(episodes) and with the
\* unbounded collector, the call returns the input list in input order and
\* every episode holds the img_urls its own detail response yields, a function
\* of the responses alone; the pauses are len - 1 for batch size 1 and none
\* for the other two.
C17_SameResultAnyBatching ==
    (/\ collPc = "done"
     /\ collEpisodes # <<>>
     /\ collMode = "all" \/ batch_size = 1 \/ batch_size = Len(collEpisodes)) =>
        /\ episodes_with_images = collEpisodes
        /\ \A id \in DOMAIN heap : UrlsOf(id) = OwnUrls(DetailOf(id))
        /\ pauses = IF collMode = "batch" /\ batch_size = 1
                    THEN Len(collEpisodes) - 1 ELSE 0

\* C17 witness: the unbounded collector returned three episodes, one with
\* images and one failed, without a pause.
C17_Witness ==
    /\ collPc = "done"
    /\ collMode = "all"
    /\ episodes_with_images = <<1, 2, 3>>
    /\ UrlsOf(1) = <<"a", "b">>
    /\ Fails(DetailOf(2))
    /\ UrlsOf(2) = <<>>
    /\ pauses = 0

\* ---- property vocabulary of the callers ----
\* a caller holds a WebtoonAnalyzer instance
CallerHolds == pc \in {"returned", "shell"}

\* the six fields of the instance all come from one completed run of the pipeline
FromCompletedRun ==
    /\ Resolved
    /\ total_count = remote.totalCount
    /\ page_size = RemotePageSize(remote.pages)
    /\ total_pages = Len(remote.pages)
    /\ Len(full_episodes) = Len(Flatten(remote.pages))
    /\ downloadable_count = FirstLock(full_episodes, heap)
    /\ downloadable_episodes = SubSeq(full_episodes, 1, downloadable_count)

\* C18: whenever a caller holds a WebtoonAnalyzer instance, it was returned by
\* the factory and its six fields were populated from one completed run of
\* the pipeline; no caller holds an instance with the defaults of the
\* constructor.
C18_NoShellReachable ==
    CallerHolds =>
        /\ pc = "returned"
        /\ driver # "direct"
        /\ FromCompletedRun

\* C19: once create has returned and the driver has read analyzer.is_adult,
\* the read did not raise and gave the is_adult of the resolved metadata; for
\* a non-adult title the driver went on to the normal report.
C19_IsAdultReadable ==
    (pc = "returned" /\ driver # "awaiting") =>
        /\ driver # "AttributeError"
        /\ driver = (IF metadata.is_adult THEN "adult_message" ELSE "report")

\* C20: the chunks of the batch collector are separated by a barrier: while a
\* chunk is awaited, exactly the episodes up to the end of that chunk have been
\* requested, every episode of the earlier chunks has been answered and one
\* pause per earlier chunk is over; during a pause nothing is in flight;
\* answers arrive chunk by chunk; and at no time are more than batch_size
\* detail requests in flight.
C20_ChunkBarrier ==
    BatchRun =>
        LET n == Len(collEpisodes)
            b == batch_size
        IN /\ InFlight <= b
           /\ InFlight >= 0
           /\ collPc = "gather_wait" =>
                 /\ detailRequests = SubSeq(collEpisodes, 1, IF collI + b <= n THEN collI + b ELSE n)
                 /\ \A p \in 1..collI : collEpisodes[p] \in Range(answered)
                 /\ Len(answered) >= collI
                 /\ pauses = collI \div b
           /\ collPc = "sleeping" =>
                 /\ InFlight = 0
                 /\ detailRequests = SubSeq(collEpisodes, 1, collI + b)
           /\ \A k, l \in DOMAIN answered :
                 k < l => (answered[k] - 1) \div b <= (answered[l] - 1) \div b

\* C20 witness: the second chunk of the 12 episodes in batches of 5 was just
\* launched: 5 requests in flight, the first 5 answered, one pause over.
C20_Witness ==
    /\ collPc = "gather_wait"
    /\ collMode = "batch"
    /\ Len(collEpisodes) = 12
    /\ batch_size = 5
    /\ collI = 5
    /\ InFlight = 5
    /\ Len(answered) = 5
    /\ pauses = 1

\* C24: a returned analysis of a title with total_pages = P issued exactly one
\* info request and P + 1 list requests: page 1 once by the resolver and once
\* more by the aggregator, every other page once; the episode objects are the
\* entries of the aggregator's P responses, and total_count, page_size and
\* total_pages are the values of the metadata the resolver returned before.
C24_RequestsOfOneAnalysis ==
    pc = "returned" =>
        LET P == metadata.total_pages[1]
            asked(by, p) == {i \in DOMAIN requests :
                               requests[i] = ListRequest(by, p)}
        IN /\ Cardinality({i \in DOMAIN requests : requests[i].kind = "info"}) = 1
           /\ Len(ListRequests) = P + 1
           /\ Len(requests) = P + 2
           /\ requests[1] = InfoRequest
           /\ asked("resolver", 1) = {2}
           /\ \A p \in 1..P : Cardinality(asked("aggregator", p)) = 1
           /\ Len(responses) = P
           /\ Len(heap) = Len(Flatten(responses))
           /\ \A k \in DOMAIN heap :
                 /\ heap[k].no = Flatten(responses)[k].no
                 /\ heap[k].subtitle = Flatten(responses)[k].subtitle
                 /\ heap[k].thumbnail_lock = Flatten(responses)[k].thumbnailLock
           /\ metadata.total_count = Some(total_count)
           /\ metadata.page_size = Some(page_size)
           /\ metadata.total_pages = Some(total_pages)

\* C24 witness: a title of two non-empty pages: four requests, page 1 asked twice.
C24_Witness ==
    /\ pc = "returned"
    /\ metadata.total_pages = Some(2)
    /\ Len(requests) = 4
    /\ requests[2] = ListRequest("resolver", 1)
    /\ requests[3] = ListRequest("aggregator", 1)
    /\ Len(remote.pages[1]) >= 1
    /\ Len(remote.pages[2]) >= 1
    /\ Len(heap) >= 2

\* the src attributes of the image elements inside the container, in document order
InsideSrcs(doc) ==
    LET t == SelectSeq(doc.imgs, LAMBDA x : x.inside)
    IN [k \in DOMAIN t |-> t[k].src]

\* the detail request of the episode was answered with a success response
\* whose body could be read
SuccessResponse(o) == o.kind = "response" /\ o.status = HttpOk /\ o.doc.decodes

\* C23 as stated: after a success response the episode holds the src attribute
\* of every image element inside the container, in document order, and the
\* empty sequence when the container is absent.
C23_AllSourcesInOrder ==
    \A k \in DOMAIN answered :
        LET o == DetailOf(answered[k]) IN
        SuccessResponse(o) =>
            UrlsOf(answered[k]) = (IF o.doc.marker THEN InsideSrcs(o.doc) ELSE <<>>)

\* C23 amended: after a success response the episode holds the non-empty src
\* attributes of the image elements inside the container, in document order;
\* nothing from outside the container; the empty sequence when the container
\* is absent; and the extraction returned the episode without raising.
C23_NonEmptySourcesInOrder ==
    /\ \A k \in DOMAIN answered :
          LET o == DetailOf(answered[k]) IN
          SuccessResponse(o) =>
              /\ UrlsOf(answered[k])
                    = (IF o.doc.marker
                       THEN SelectSeq(InsideSrcs(o.doc), LAMBDA u : u # "")
                       ELSE <<>>)
              /\ \A u \in Range(UrlsOf(answered[k])) :
                    \E x \in Range(o.doc.imgs) : x.inside /\ x.src = u
    /\ \A j \in DOMAIN batchTasks :
          (batchTasks[j].state = "done" /\ SuccessResponse(DetailOf(batchTasks[j].id)))
              => batchTasks[j].result = "episode"

\* C23 witness: a page with images inside and outside the container was
\* extracted, and a page without the container gave the empty sequence.
C23_Witness ==
    \E i, j \in DOMAIN batchTasks :
        /\ batchTasks[i].state = "done"
        /\ DetailOf(batchTasks[i].id) = Response(HttpOk, DocImages)
        /\ UrlsOf(batchTasks[i].id) = <<"a", "b">>
        /\ batchTasks[j].state = "done"
        /\ DetailOf(batchTasks[j].id) = Response(HttpOk, DocNoMarker)
        /\ UrlsOf(batchTasks[j].id) = <<>>
        /\ batchTasks[j].result = "episode"

\* ---- property vocabulary of the collectors called on an analysis ----
\* the number of extraction calls the instance id has received
ExtractionCalls(id) == Cardinality({p \in DOMAIN detailRequests : detailRequests[p] = id})

\* the fields of an episode other than img_urls
Identity(e) == <<e.no, e.subtitle, e.thumbnail_lock>>

\* C21: during one collector call no Episode instance receives more than one
\* extraction call, no two extraction calls in flight write the same instance,
\* and at the return every instance of the input has received exactly one;
\* for every input list, also one naming the same instance twice.
C21_OneExtractionPerInstance ==
    /\ \A id \in DOMAIN heap : ExtractionCalls(id) <= 1
    /\ \A i, j \in DOMAIN batchTasks :
          (i # j /\ batchTasks[i].state = "inflight" /\ batchTasks[j].state = "inflight")
              => batchTasks[i].id # batchTasks[j].id
    /\ collPc = "done" => \A id \in Range(collEpisodes) : ExtractionCalls(id) = 1

\* C22: a step of an extraction or of a collector call leaves full_episodes,
\* downloadable_episodes, total_count, downloadable_count, page_size and
\* total_pages unchanged, creates and drops no episode, leaves no, subtitle and
\* thumbnail_lock of every episode unchanged, and leaves the img_urls of every
\* episode that was not passed to the call unchanged.
C22_OnlyImgUrlsMutated ==
    [][/\ full_episodes' = full_episodes
       /\ downloadable_episodes' = downloadable_episodes
       /\ total_count' = total_count
       /\ downloadable_count' = downloadable_count
       /\ page_size' = page_size
       /\ total_pages' = total_pages
       /\ DOMAIN heap' = DOMAIN heap
       /\ \A id \in DOMAIN heap :
             /\ Identity(heap'[id]) = Identity(heap[id])
             /\ id \notin Range(collEpisodes) => heap'[id].img_urls = heap[id].img_urls]_vars

\* C22 witness: the collector has returned the downloadable episodes of an
\* analysis with a locked episode; the first episode got its images, the
\* locked one is as the analysis left it.
C22_Witness ==
    /\ collPc = "done"
    /\ collEpisodes = downloadable_episodes
    /\ episodes_with_images = downloadable_episodes
    /\ downloadable_count >= 1
    /\ downloadable_count < Len(full_episodes)
    /\ UrlsOf(full_episodes[1]) = <<"a", "b">>
    /\ heap[full_episodes[Len(full_episodes)]].thumbnail_lock
    /\ UrlsOf(full_episodes[Len(full_episodes)]) = <<>>

\* C25: every entry of downloadable_episodes is the same instance as the entry
\* of full_episodes at its position, at every moment of a collector call on
\* episodes of the analysis, so the img_urls read through either list agree.
C25_DownloadableSharesInstances ==
    /\ downloadable_count = Len(downloadable_episodes)
    /\ downloadable_count <= Len(full_episodes)
    /\ \A i \in 1..downloadable_count :
          /\ downloadable_episodes[i] = full_episodes[i]
          /\ heap[downloadable_episodes[i]].img_urls = heap[full_episodes[i]].img_urls

\* C25 witness: the batch collector has returned two downloadable episodes;
\* the images it attached to the second are read through full_episodes.
C25_Witness ==
    /\ collPc = "done"
    /\ collMode = "batch"
    /\ collEpisodes = downloadable_episodes
    /\ downloadable_count >= 2
    /\ heap[full_episodes[2]].img_urls = <<"a", "b">>
    /\ heap[downloadable_episodes[2]].img_urls = <<"a", "b">>
    /\ heap[full_episodes[1]].img_urls = <<>>

====
